---- MODULE Spec2Model ----
(***************************************************************************)
(* Model of libavcodec/v4l2_device.c: ff_v4l2_device_probe_video (probe)   *)
(* and ff_v4l2_device_retrieve_media (resolve) with their static helpers.  *)
(*                                                                         *)
(* The operating system is the environment: what open(), ioctl(), fstat(), *)
(* opendir(), av_mallocz() and the checkdev callback answer is chosen      *)
(* nondeterministically where the code asks.  A failing system call leaves *)
(* a positive errno; the fill MEDIA_IOC_G_TOPOLOGY ioctl succeeds only if  *)
(* the interfaces fit in the count the caller passed in.                   *)
(***************************************************************************)
EXTENDS Integers, Sequences, FiniteSets

\* ------------------------------------------------------------------ bounds
MaxDir  == 3      \* longest /dev listing explored
MaxIntf == 2      \* largest interface count a topology query reports

\* ------------------------------------------------------- program constants
EINVAL == 22
ENOMEM == 12
MEDIA_INTF_T_V4L_VIDEO == 512

\* errno values a failing open/ioctl/fstat/opendir may leave (EACCES, EINVAL)
Errnos == {13, EINVAL}

\* ---------------------------------------------------------------- strings
\* C strings are sequences of characters.
Names ==
  { <<"v","i","d","e","o","0">>, <<"v","i","d","e","o","X">>,
    <<"v","i","d","e","o","1">>,
    <<"m","e","d","i","a","0">>, <<"m","e","d","i","a","1">> }

VideoPrefix == <<"v","i","d","e","o">>
MediaPrefix == <<"m","e","d","i","a">>
DevDir      == <<"/","d","e","v","/">>

Min(a, b) == IF a < b THEN a ELSE b

Take(s, n) == SubSeq(s, 1, Min(n, Len(s)))

\* strncmp(a, b, n): 0 iff the first n characters (or the whole strings,
\* when shorter) are equal; the sign of a non-zero answer is not used.
strncmp_differs(a, b, n) == IF Take(a, n) = Take(b, n) THEN 1 ELSE 0
strncmp(a, b, n) == IF Take(a, n) = Take(b, n) THEN 0 ELSE 1

\* snprintf(devname, sizeof(devname), "/dev/%s", entry->d_name); the buffer
\* holds PATH_MAX characters, more than "/dev/" and any d_name
snprintf_dev_short(name) == DevDir \o Take(name, 5)
snprintf_dev(name) == DevDir \o name

\* ------------------------------------------------------------ descriptors
AVERROR(e) == -e

\* open() returns the lowest descriptor number that is not in use
LowestFree(s) == CHOOSE n \in 0..Cardinality(s) : n \notin s /\ \A m \in 0..(n-1) : m \in s

\* close(x): x leaves the descriptor table; EBADF (no effect) otherwise
close_noop(s, x) == s
close(s, x) == s \ {x}

StdFds == {0, 1, 2}

\* the value v4l2_device_open_video returns: openErrno/ioctlErrno are the
\* errno of a failed open()/ioctl() (0 when it succeeded), nfd the descriptor
v4l2_device_open_video_unchecked(openErrno, ioctlErrno, nfd) ==
  IF openErrno # 0 THEN AVERROR(openErrno) ELSE nfd
v4l2_device_open_video_einval(openErrno, ioctlErrno, nfd) ==
  IF openErrno # 0 \/ ioctlErrno # 0 THEN AVERROR(EINVAL) ELSE nfd
v4l2_device_open_video(openErrno, ioctlErrno, nfd) ==
  IF openErrno # 0 THEN AVERROR(openErrno)
  ELSE IF ioctlErrno # 0 THEN AVERROR(ioctlErrno)
  ELSE nfd

\* the value v4l2_device_open_media returns
v4l2_device_open_media_zero(openErrno, ioctlErrno, nfd) ==
  IF openErrno # 0 THEN AVERROR(openErrno)
  ELSE IF ioctlErrno # 0 THEN AVERROR(ioctlErrno)
  ELSE 0
v4l2_device_open_media_einval(openErrno, ioctlErrno, nfd) ==
  IF openErrno # 0 \/ ioctlErrno # 0 THEN AVERROR(EINVAL) ELSE nfd
v4l2_device_open_media(openErrno, ioctlErrno, nfd) ==
  IF openErrno # 0 THEN AVERROR(openErrno)
  ELSE IF ioctlErrno # 0 THEN AVERROR(ioctlErrno)
  ELSE nfd

\* all listings of /dev: distinct names, in any order
Dirs == { d \in UNION { [1..n -> Names] : n \in 0..MaxDir } :
            \A i, j \in DOMAIN d : i # j => d[i] # d[j] }

\* ----------------------------------------------------------------- records
ZeroRecord == <<>>                       \* memset(.., 0, ..)
Uninit     == <<"uninitialized">>        \* an automatic variable never written

\* what VIDIOC_QUERYCAP / MEDIA_IOC_DEVICE_INFO write for node `name`
CapabilityOf(name) == <<"cap">> \o name
InfoOf(name)       == <<"info">> \o name

\* the caller's output structures before the call
CallerVideo == [devname |-> <<"caller">>, fd |-> -1, capability |-> <<"caller">>]
CallerMedia == [devname |-> <<"caller">>, fd |-> -1, info |-> <<"caller">>]

\* struct media_v2_interface, the fields the code reads
ZeroInterface == [intf_type |-> 0, major |-> 0, minor |-> 0]

\* the records a fill query may write: a video interface with both, only the
\* major or only the minor number of the video node, and an interface of
\* another type with both numbers of the video node
Interfaces ==
  { r \in [intf_type : {MEDIA_INTF_T_V4L_VIDEO, MEDIA_INTF_T_V4L_VIDEO + 1},
           major : {81, 82}, minor : {0, 1}] :
      /\ r.major = 81 \/ r.minor = 0
      /\ r.intf_type # MEDIA_INTF_T_V4L_VIDEO => (r.major = 81 /\ r.minor = 0) }

\* st_rdev of the input video node
StRdevs == { [major |-> 81, minor |-> 0] }

VARIABLES
  op,            \* which function is called: "probe" or "resolve"
  pc,            \* position in the function
  dir,           \* the listing readdir() will produce
  pos,           \* number of entries readdir() has returned
  fds,           \* the process's open descriptors
  dirp,          \* descriptor behind the DIR stream, -1 when NULL/closed
  ret,           \* local `ret`
  fd,            \* local `fd` of resolve
  tmpdev,        \* local `tmpdev` of probe
  devname,       \* local `devname` of resolve
  info,          \* local `info` of resolve
  statbuf,       \* st_rdev read by fstat
  topology,      \* topology.num_interfaces
  interfaces,    \* the allocated interface buffer, NULL when none
  device,        \* *device, the output of probe
  media_device,  \* *media_device, the output of resolve
  result,        \* the value returned, meaningful when pc = "done"
  \* history (not read by the code)
  opened,        \* candidate descriptors open() returned during the call
  closes,        \* arguments of the close() calls, in order
  closedirs,     \* number of closedir() calls
  filled,        \* records the last fill query returned
  hist,          \* one record per directory entry read
  log            \* the system and library calls made, in order

vars == <<op, pc, dir, pos, fds, dirp, ret, fd, tmpdev, devname, info, statbuf,
          topology, interfaces, device, media_device, result,
          opened, closes, closedirs, filled, hist, log>>

NULL == <<>>

HistRec(name, out) ==
  [name |-> name, out |-> out, fd |-> -1, errno |-> 0, n |-> -1,
   alloc |-> FALSE, fill |-> FALSE]

SetLast(h, r) == [h EXCEPT ![Len(h)] = r]
Last(h) == h[Len(h)]

\* one call: its name, its argument, what it returned and the number of
\* directory entries read when it was made
Event(call, arg, res) == [call |-> call, arg |-> arg, res |-> res, at |-> pos]

\* what close(x) returns: 0, or -1 (EBADF) when x is not an open descriptor
CloseRes(s, x) == IF x \in s THEN 0 ELSE -1

\* closedir(dirp) releases the descriptor behind the stream
closedir_leak(s, d) == s
closedir(s, d) == s \ {d}

\* struct stat after memset(&statbuf, 0, sizeof(statbuf))
ZeroStat == [major |-> 0, minor |-> 0]

\* the caller's output structure when the function returns: written only
\* after the ret < 0 test has let the call through
OutputOnReturn_always(r, old, new) == new
OutputOnReturn(r, old, new) == IF r < 0 THEN old ELSE new

\* the descriptor of the input video device (video_device->fd)
video_device_fd == LowestFree(StdFds)

Init ==
  /\ op \in {"probe", "resolve"}
  /\ dir \in Dirs
  /\ pc = "start"
  /\ pos = 0
  /\ fds = StdFds \cup {video_device_fd}
  /\ dirp = -1
  /\ ret = AVERROR(EINVAL)
  /\ fd = -1
  /\ tmpdev = [devname |-> <<>>, fd |-> 0, capability |-> ZeroRecord]
  /\ devname = <<>>
  /\ info = Uninit
  /\ statbuf = ZeroRecord
  /\ topology = 0
  /\ interfaces = NULL
  /\ device = CallerVideo
  /\ media_device = CallerMedia
  /\ result = 0
  /\ opened = {}
  /\ closes = <<>>
  /\ closedirs = 0
  /\ filled = <<>>
  /\ hist = <<>>
  /\ log = <<>>

resolveLocals == <<fd, devname, info, statbuf, topology, interfaces, media_device, filled>>

\* =================================================================== probe
\* opendir("/dev") and the initialisers of ff_v4l2_device_probe_video
ProbeBegin ==
  /\ op = "probe" /\ pc = "start"
  /\ \/ \E e \in Errnos :
          /\ result' = AVERROR(e)
          /\ pc' = "done"
          /\ log' = Append(log, Event("opendir", 0, -1))
          /\ UNCHANGED <<fds, dirp, ret>>
     \/ /\ dirp' = LowestFree(fds)
        /\ fds' = fds \cup {LowestFree(fds)}
        /\ log' = Append(log, Event("opendir", 0, LowestFree(fds)))
        /\ ret' = AVERROR(EINVAL)
        /\ pc' = "p_loop"
        /\ UNCHANGED result
  /\ UNCHANGED <<op, dir, pos, tmpdev, device, opened, closes, closedirs, hist>>
  /\ UNCHANGED resolveLocals

\* readdir(), the loop test, the prefix test and snprintf
ProbeReadDir ==
  /\ op = "probe" /\ pc = "p_loop"
  /\ IF pos >= Len(dir)
       THEN /\ pc' = "p_closedir"
            /\ UNCHANGED <<pos, tmpdev, hist>>
       ELSE LET entry == dir[pos + 1] IN
            /\ pos' = pos + 1
            /\ IF strncmp(entry, VideoPrefix, 5) # 0
                 THEN /\ pc' = "p_loop"
                      /\ hist' = Append(hist, HistRec(entry, "skip"))
                      /\ UNCHANGED tmpdev
                 ELSE /\ tmpdev' = [tmpdev EXCEPT !.devname = snprintf_dev(entry)]
                      /\ hist' = Append(hist, HistRec(entry, "trying"))
                      /\ pc' = "p_open"
  /\ UNCHANGED <<op, dir, fds, dirp, ret, device, result, opened, closes, closedirs, log>>
  /\ UNCHANGED resolveLocals

\* v4l2_device_open_video(tmpdev.devname, &tmpdev.capability), the test of
\* its result and tmpdev.fd = ret
ProbeOpenVideo ==
  /\ op = "probe" /\ pc = "p_open"
  /\ \E openErrno \in Errnos \cup {0}, ioctlErrno \in Errnos \cup {0} :
       /\ openErrno # 0 => ioctlErrno = 0      \* no ioctl after a failed open
       /\ LET nfd == IF openErrno = 0 THEN LowestFree(fds) ELSE -1
              r   == v4l2_device_open_video(openErrno, ioctlErrno, nfd)
              out == IF openErrno # 0 THEN "openfail"
                     ELSE IF ioctlErrno # 0 THEN "queryfail" ELSE "opened"
          IN
          /\ fds' = IF openErrno # 0 THEN fds
                    ELSE IF ioctlErrno # 0 THEN close(fds \cup {nfd}, nfd)
                    ELSE fds \cup {nfd}
          /\ opened' = IF openErrno = 0 THEN opened \cup {nfd} ELSE opened
          /\ closes' = IF openErrno = 0 /\ ioctlErrno # 0 THEN Append(closes, nfd) ELSE closes
          /\ log' = log \o
                IF openErrno # 0 THEN << Event("open", 0, -1) >>
                ELSE IF ioctlErrno # 0
                  THEN << Event("open", 0, nfd), Event("querycap", nfd, -1),
                          Event("close", nfd, 0) >>
                  ELSE << Event("open", 0, nfd), Event("querycap", nfd, 0) >>
          /\ ret' = r
          /\ hist' = SetLast(hist, [Last(hist) EXCEPT
                        !.out = out, !.errno = openErrno + ioctlErrno, !.fd = nfd])
          /\ IF r < 0
               THEN /\ tmpdev' = [tmpdev EXCEPT
                          !.capability = IF openErrno = 0 THEN ZeroRecord ELSE @]
                    /\ pc' = "p_loop"
               ELSE /\ tmpdev' = [tmpdev EXCEPT
                          !.capability = IF ioctlErrno = 0
                                           THEN CapabilityOf(Last(hist).name)
                                           ELSE ZeroRecord,
                          !.fd = r]
                    /\ pc' = "p_check"
  /\ UNCHANGED <<op, dir, pos, dirp, device, result, closedirs>>
  /\ UNCHANGED resolveLocals

\* if (checkdev(&tmpdev, opaque)) break; else { close; ret = EINVAL }
ProbeCheckdev ==
  /\ op = "probe" /\ pc = "p_check"
  /\ \E accepted \in BOOLEAN :
       IF accepted
         THEN /\ pc' = "p_closedir"
              /\ hist' = SetLast(hist, [Last(hist) EXCEPT !.out = "accept"])
              /\ log' = Append(log, Event("checkdev", tmpdev.fd, 1))
              /\ UNCHANGED <<fds, closes, ret>>
         ELSE /\ fds' = close(fds, tmpdev.fd)
              /\ closes' = Append(closes, tmpdev.fd)
              /\ log' = log \o << Event("checkdev", tmpdev.fd, 0),
                                  Event("close", tmpdev.fd, CloseRes(fds, tmpdev.fd)) >>
              /\ ret' = AVERROR(EINVAL)
              /\ hist' = SetLast(hist, [Last(hist) EXCEPT !.out = "reject"])
              /\ pc' = "p_loop"
  /\ UNCHANGED <<op, dir, pos, dirp, tmpdev, device, result, opened, closedirs>>
  /\ UNCHANGED resolveLocals

\* closedir and the return of ff_v4l2_device_probe_video
ProbeFinish ==
  /\ op = "probe" /\ pc = "p_closedir"
  /\ fds' = closedir(fds, dirp)
  /\ dirp' = -1
  /\ closedirs' = closedirs + 1
  /\ log' = Append(log, Event("closedir", dirp, 0))
  /\ result' = IF ret < 0 THEN ret ELSE 0
  /\ device' = OutputOnReturn(ret, device, tmpdev)
  /\ pc' = "done"
  /\ UNCHANGED <<op, dir, pos, ret, tmpdev, opened, closes, hist>>
  /\ UNCHANGED resolveLocals

\* ================================================================= resolve
\* topology.num_interfaces <= 0 (num_interfaces is unsigned)
NoInterfaces_negative(n) == n < 0
NoInterfaces(n) == n <= 0

\* interfaces[i].intf_type != MEDIA_INTF_T_V4L_VIDEO -> continue
IsVideoInterface_any(r) == TRUE
IsVideoInterface(r) == r.intf_type = MEDIA_INTF_T_V4L_VIDEO

\* devnode.major == video_major && devnode.minor == video_minor
SameDevnode_major(r, video_major, video_minor) == r.major = video_major
SameDevnode(r, video_major, video_minor) ==
  r.major = video_major /\ r.minor = video_minor

\* the scan loop of v4l2_device_check_media, from index i (0-based)
RECURSIVE ScanInterfaces(_, _, _, _, _)
ScanInterfaces(i, intf, num_interfaces, video_major, video_minor) ==
  IF ~(i < num_interfaces)
    THEN AVERROR(EINVAL)
    ELSE IF ~IsVideoInterface(intf[i + 1])
      THEN ScanInterfaces(i + 1, intf, num_interfaces, video_major, video_minor)
      ELSE IF SameDevnode(intf[i + 1], video_major, video_minor)
        THEN 0
        ELSE ScanInterfaces(i + 1, intf, num_interfaces, video_major, video_minor)

\* the number of records interfaces[0], interfaces[1], ... the same loop reads
RECURSIVE ScanReads(_, _, _, _, _)
ScanReads(i, intf, num_interfaces, video_major, video_minor) ==
  IF ~(i < num_interfaces)
    THEN i
    ELSE IF i + 1 > Len(intf)
      THEN i + 1                               \* a read past the buffer
      ELSE IF IsVideoInterface(intf[i + 1])
              /\ SameDevnode(intf[i + 1], video_major, video_minor)
        THEN i + 1
        ELSE ScanReads(i + 1, intf, num_interfaces, video_major, video_minor)

\* av_mallocz(n * sizeof(struct media_v2_interface))
av_mallocz_short(n) == [i \in 1..(n - 1) |-> ZeroInterface]
av_mallocz(n) == [i \in 1..n |-> ZeroInterface]

\* av_freep(&interfaces): the buffer is released and the pointer set to NULL
av_freep_leak(p) == p
av_freep(p) == NULL

\* if (ret == 0) break;
CandidateAccepted_or_nomem(r) == r = 0 \/ r = AVERROR(ENOMEM)
CandidateAccepted_nonpositive(r) == r <= 0
CandidateAccepted(r) == r = 0

\* if (ret < 0) after fstat
fstat_failed_positive(r) == r > 0
fstat_failed(r) == r < 0

\* memset(&statbuf, 0, ..), fstat(video_device->fd), opendir("/dev") and
\* ret = AVERROR(EINVAL)
ResolveBegin ==
  /\ op = "resolve" /\ pc = "start"
  /\ \E fstatErrno \in Errnos \cup {0}, dirErrno \in Errnos \cup {0}, st \in StRdevs :
       /\ fstatErrno # 0 => dirErrno = 0       \* one failure per call
       /\ LET r == IF fstatErrno # 0 THEN -1 ELSE 0 IN
          /\ statbuf' = IF fstatErrno # 0 THEN ZeroStat ELSE st
          /\ IF fstat_failed(r)
               THEN /\ result' = AVERROR(fstatErrno)
                    /\ ret' = r
                    /\ pc' = "done"
                    /\ log' = Append(log, Event("fstat", video_device_fd, r))
                    /\ UNCHANGED <<fds, dirp>>
               ELSE IF dirErrno # 0
                 THEN /\ result' = AVERROR(dirErrno)
                      /\ ret' = r
                      /\ pc' = "done"
                      /\ log' = log \o << Event("fstat", video_device_fd, r),
                                          Event("opendir", 0, -1) >>
                      /\ UNCHANGED <<fds, dirp>>
                 ELSE /\ dirp' = LowestFree(fds)
                      /\ fds' = fds \cup {LowestFree(fds)}
                      /\ log' = log \o << Event("fstat", video_device_fd, r),
                                          Event("opendir", 0, LowestFree(fds)) >>
                      /\ ret' = AVERROR(EINVAL)
                      /\ pc' = "r_loop"
                      /\ UNCHANGED result
  /\ UNCHANGED <<op, dir, pos, tmpdev, device, opened, closes, closedirs, hist>>
  /\ UNCHANGED <<fd, devname, info, topology, interfaces, media_device, filled>>

\* readdir(), the loop test, the prefix test and snprintf
ResolveReadDir ==
  /\ op = "resolve" /\ pc = "r_loop"
  /\ IF pos >= Len(dir)
       THEN /\ pc' = "r_closedir"
            /\ UNCHANGED <<pos, devname, hist, filled>>
       ELSE LET entry == dir[pos + 1] IN
            /\ pos' = pos + 1
            /\ IF strncmp(entry, MediaPrefix, 5) # 0
                 THEN /\ pc' = "r_loop"
                      /\ hist' = Append(hist, HistRec(entry, "skip"))
                      /\ UNCHANGED <<devname, filled>>
                 ELSE /\ devname' = snprintf_dev(entry)
                      /\ hist' = Append(hist, HistRec(entry, "trying"))
                      /\ filled' = <<>>
                      /\ pc' = "r_open"
  /\ UNCHANGED <<op, dir, fds, dirp, ret, tmpdev, device, result, opened, closes, closedirs, log>>
  /\ UNCHANGED <<fd, info, statbuf, topology, interfaces, media_device>>

\* v4l2_device_open_media(devname, &info), the test of its result, fd = ret
ResolveOpenMedia ==
  /\ op = "resolve" /\ pc = "r_open"
  /\ \E openErrno \in Errnos \cup {0}, ioctlErrno \in Errnos \cup {0} :
       /\ openErrno # 0 => ioctlErrno = 0      \* no ioctl after a failed open
       /\ LET nfd == IF openErrno = 0 THEN LowestFree(fds) ELSE -1
              r   == v4l2_device_open_media(openErrno, ioctlErrno, nfd)
              out == IF openErrno # 0 THEN "openfail"
                     ELSE IF ioctlErrno # 0 THEN "infofail" ELSE "opened"
          IN
          /\ fds' = IF openErrno # 0 THEN fds
                    ELSE IF ioctlErrno # 0 THEN close(fds \cup {nfd}, nfd)
                    ELSE fds \cup {nfd}
          /\ opened' = IF openErrno = 0 THEN opened \cup {nfd} ELSE opened
          /\ closes' = IF openErrno = 0 /\ ioctlErrno # 0 THEN Append(closes, nfd) ELSE closes
          /\ log' = log \o
                IF openErrno # 0 THEN << Event("open", 0, -1) >>
                ELSE IF ioctlErrno # 0
                  THEN << Event("open", 0, nfd), Event("device_info", nfd, -1),
                          Event("close", nfd, 0) >>
                  ELSE << Event("open", 0, nfd), Event("device_info", nfd, 0) >>
          /\ info' = IF openErrno # 0 THEN info
                     ELSE IF ioctlErrno # 0 THEN ZeroRecord
                     ELSE InfoOf(Last(hist).name)
          /\ ret' = r
          /\ hist' = SetLast(hist, [Last(hist) EXCEPT
                        !.out = out, !.errno = openErrno + ioctlErrno, !.fd = nfd])
          /\ IF r < 0
               THEN /\ pc' = "r_loop"
                    /\ UNCHANGED fd
               ELSE /\ fd' = r
                    /\ pc' = "r_probe"
  /\ UNCHANGED <<op, dir, pos, dirp, tmpdev, device, result, closedirs>>
  /\ UNCHANGED <<devname, statbuf, topology, interfaces, media_device, filled>>

\* v4l2_device_check_media, first half: the size-probe MEDIA_IOC_G_TOPOLOGY,
\* the num_interfaces test and av_mallocz
CheckMediaSizeProbe ==
  /\ op = "resolve" /\ pc = "r_probe"
  /\ \/ \E e \in Errnos :                       \* ioctl fails
          /\ ret' = AVERROR(e)
          /\ hist' = SetLast(hist, [Last(hist) EXCEPT !.out = "topofail", !.errno = e])
          /\ log' = Append(log, Event("topology", 0, -1))
          /\ pc' = "r_checked"
          /\ UNCHANGED <<topology, interfaces>>
     \/ \E n \in 0..MaxIntf :
          /\ topology' = n
          /\ IF NoInterfaces(n)
               THEN /\ ret' = AVERROR(EINVAL)
                    /\ hist' = SetLast(hist, [Last(hist) EXCEPT !.out = "empty", !.n = n])
                    /\ log' = Append(log, Event("topology", 0, n))
                    /\ pc' = "r_checked"
                    /\ UNCHANGED interfaces
               ELSE \/ /\ ret' = AVERROR(ENOMEM)        \* av_mallocz returns NULL
                       /\ hist' = SetLast(hist, [Last(hist) EXCEPT !.out = "allocfail", !.n = n])
                       /\ log' = log \o << Event("topology", 0, n), Event("av_mallocz", n, 0) >>
                       /\ pc' = "r_checked"
                       /\ UNCHANGED interfaces
                    \/ /\ interfaces' = av_mallocz(n)
                       /\ ret' = 0
                       /\ hist' = SetLast(hist, [Last(hist) EXCEPT !.n = n, !.alloc = TRUE])
                       /\ log' = log \o << Event("topology", 0, n), Event("av_mallocz", n, 1) >>
                       /\ pc' = "r_fill"
  /\ UNCHANGED <<op, dir, pos, fds, dirp, tmpdev, device, result, opened, closes, closedirs>>
  /\ UNCHANGED <<fd, devname, info, statbuf, media_device, filled>>

\* v4l2_device_check_media, second half: the fill MEDIA_IOC_G_TOPOLOGY (with
\* topology.num_interfaces still the size-probe count), the scan and av_freep
CheckMediaFill ==
  /\ op = "resolve" /\ pc = "r_fill"
  /\ \/ \E e \in Errnos :                       \* ioctl fails (ENOSPC included)
          /\ ret' = AVERROR(e)
          /\ hist' = SetLast(hist, [Last(hist) EXCEPT !.out = "fillfail", !.errno = e, !.fill = TRUE])
          /\ log' = log \o << Event("topology_fill", topology, -1), Event("av_freep", 0, 0) >>
          /\ UNCHANGED <<topology, filled>>
     \/ \E m \in 0..Len(interfaces) :
        \E recs \in [1..m -> Interfaces] :
          LET buf == [i \in 1..Len(interfaces) |-> IF i <= m THEN recs[i] ELSE interfaces[i]]
              r   == ScanInterfaces(0, buf, m, statbuf.major, statbuf.minor)
          IN /\ topology' = m
             /\ filled' = recs
             /\ ret' = r
             /\ hist' = SetLast(hist, [Last(hist) EXCEPT
                           !.out = IF r = 0 THEN "match" ELSE "nomatch", !.fill = TRUE])
             /\ log' = log \o
                  << Event("topology_fill", topology, m),
                     Event("scan", Len(buf),
                           ScanReads(0, buf, m, statbuf.major, statbuf.minor)),
                     Event("av_freep", 0, 0) >>
  /\ interfaces' = av_freep(interfaces)
  /\ pc' = "r_checked"
  /\ UNCHANGED <<op, dir, pos, fds, dirp, tmpdev, device, result, opened, closes, closedirs>>
  /\ UNCHANGED <<fd, devname, info, statbuf, media_device>>

\* if (ret == 0) break; close(ret);
ResolveAfterCheck ==
  /\ op = "resolve" /\ pc = "r_checked"
  /\ IF CandidateAccepted(ret)
       THEN /\ pc' = "r_closedir"
            /\ UNCHANGED <<fds, closes, log>>
       ELSE /\ fds' = close(fds, ret)
            /\ closes' = Append(closes, ret)
            /\ log' = Append(log, Event("close", ret, CloseRes(fds, ret)))
            /\ pc' = "r_loop"
  /\ UNCHANGED <<op, dir, pos, dirp, ret, tmpdev, device, result, opened, closedirs, hist>>
  /\ UNCHANGED resolveLocals

\* closedir and the return of ff_v4l2_device_retrieve_media
ResolveFinish ==
  /\ op = "resolve" /\ pc = "r_closedir"
  /\ fds' = closedir(fds, dirp)
  /\ dirp' = -1
  /\ closedirs' = closedirs + 1
  /\ log' = Append(log, Event("closedir", dirp, 0))
  /\ result' = IF ret < 0 THEN ret ELSE 0
  /\ media_device' = OutputOnReturn(ret, media_device,
                                    [devname |-> devname, fd |-> fd, info |-> info])
  /\ pc' = "done"
  /\ UNCHANGED <<op, dir, pos, ret, tmpdev, device, opened, closes, hist>>
  /\ UNCHANGED <<fd, devname, info, statbuf, topology, interfaces, filled>>

Next ==
  \/ ProbeBegin \/ ProbeReadDir \/ ProbeOpenVideo \/ ProbeCheckdev \/ ProbeFinish
  \/ ResolveBegin \/ ResolveReadDir \/ ResolveOpenMedia
  \/ CheckMediaSizeProbe \/ CheckMediaFill \/ ResolveAfterCheck \/ ResolveFinish

Spec == Init /\ [][Next]_vars

\* ============================================================== properties
ProbeDone   == op = "probe" /\ pc = "done"
ResolveDone == op = "resolve" /\ pc = "done"

\* the loop ran to its end or to a break (the directory stream was opened)
Enumerated == closedirs = 1

HasPrefix(name, prefix) == Take(name, Len(prefix)) = prefix

\* candidate descriptors the call opened that are still open
StillOpen == opened \cap fds

\* a fill answer holds a video-interface record naming the device (major, minor)
HasExactRecord(recs, id) ==
  \E k \in 1..Len(recs) :
     /\ recs[k].intf_type = MEDIA_INTF_T_V4L_VIDEO
     /\ recs[k].major = id.major
     /\ recs[k].minor = id.minor

\* outcomes that reject one controller candidate and no more
PerCandidate == {"openfail", "infofail", "topofail", "empty", "fillfail", "nomatch"}

\* the error a rejected candidate leaves behind; errno is the value read at
\* the return statement (v4l2_device_check_media reads it after av_log)
CandidateError(h) ==
  IF h.out \in {"openfail", "queryfail", "infofail", "topofail", "fillfail"} THEN -h.errno
  ELSE IF h.out = "allocfail" THEN -ENOMEM
  ELSE -EINVAL

\* the error of the last candidate that was tried, -EINVAL when none was
LastError(h) ==
  IF \A i \in 1..Len(h) : h[i].out = "skip"
    THEN -EINVAL
    ELSE LET i == CHOOSE k \in 1..Len(h) :
                   h[k].out # "skip" /\ \A l \in (k+1)..Len(h) : h[l].out = "skip"
         IN CandidateError(h[i])

\* C1 (as claimed): when resolve returns, every controller descriptor it
\* opened is closed again, except the accepted controller's on success.
C1_ResolveClosesRejected ==
  ResolveDone => StillOpen = (IF result = 0 THEN {media_device.fd} ELSE {})

\* C2: when probe succeeds, the handle is the earliest entry in enumeration
\* order with the "video" prefix whose open and capability query succeeded
\* and which the predicate accepted; path, descriptor and capability record
\* are that entry's.
C2_ProbeReturnsFirstAccepted ==
  (ProbeDone /\ result = 0) =>
    \E i \in 1..Len(hist) :
      /\ \A j \in 1..i : hist[j].name = dir[j]
      /\ HasPrefix(dir[i], VideoPrefix)
      /\ hist[i].out = "accept"
      /\ \A j \in 1..(i-1) : hist[j].out \in {"skip", "openfail", "queryfail", "reject"}
      /\ device.devname = DevDir \o dir[i]
      /\ device.fd = hist[i].fd
      /\ device.capability = CapabilityOf(dir[i])

C2_Witness ==
  /\ ProbeDone /\ result = 0
  /\ Len(hist) = 3
  /\ hist[1].out \in {"openfail", "queryfail", "reject"}
  /\ hist[2].out = "skip"
  /\ hist[3].out = "accept"

\* C3: resolve succeeds only if the fill answer of the returned controller
\* holds a video-interface record with the input node's (major, minor); a
\* fill answer without such a record never makes its candidate accepted.
C3_AcceptedTopologyMatches ==
  /\ (ResolveDone /\ result = 0) => HasExactRecord(filled, statbuf)
  /\ (op = "resolve" /\ pc = "r_checked" /\ Last(hist).out \in {"match", "nomatch"}
        /\ ~HasExactRecord(filled, statbuf)) => ret # 0

C3_Witness ==
  /\ ResolveDone /\ result = 0
  /\ Len(filled) = 2
  /\ filled[1].intf_type # MEDIA_INTF_T_V4L_VIDEO
  /\ filled[1].major = statbuf.major /\ filled[1].minor = statbuf.minor
  /\ HasExactRecord(filled, statbuf)
  /\ \E i \in 1..Len(hist) : hist[i].out = "nomatch"

\* C4: when probe returns, the only candidate descriptor still open is the
\* accepted one (non-negative) on success, and none on failure.
C4_ProbeKeepsOnlyAccepted ==
  ProbeDone =>
    IF result = 0
      THEN StillOpen = {device.fd} /\ device.fd >= 0
      ELSE StillOpen = {}

C4_Witness ==
  /\ ProbeDone /\ result = 0
  /\ Len(hist) = 3
  /\ hist[1].out = "queryfail"
  /\ hist[2].out = "reject"
  /\ hist[3].out = "accept"

\* C5 (as claimed): an allocation failure ends resolve at once: no later
\* directory entry is opened and the call returns the allocation error.
C5_AllocFailureIsFatal ==
  ResolveDone =>
    \A i \in 1..Len(hist) :
      hist[i].out = "allocfail" =>
        /\ \A j \in (i+1)..Len(hist) : hist[j].out = "skip"
        /\ result = -ENOMEM

\* C5 (amended): an allocation failure rejects only its candidate: every
\* later entry is still enumerated and every later "media" entry tried, a
\* later match is accepted, and the allocation error is returned when no
\* "media" entry follows the failing candidate.
C5_AllocFailureRejectsCandidate ==
  ResolveDone =>
    \A i \in 1..Len(hist) :
      hist[i].out = "allocfail" =>
        /\ (\A j \in 1..Len(hist) : hist[j].out # "match") => Len(hist) = Len(dir)
        /\ \A j \in (i+1)..Len(hist) :
             /\ HasPrefix(dir[j], MediaPrefix) => hist[j].out \notin {"skip", "trying"}
             /\ hist[j].out = "match" =>
                  result = 0 /\ media_device.devname = DevDir \o dir[j]
        /\ (\A j \in (i+1)..Len(hist) : hist[j].out = "skip") => result = -ENOMEM

C5_Witness ==
  /\ ResolveDone /\ result = 0
  /\ Len(hist) = 2
  /\ hist[1].out = "allocfail"
  /\ hist[2].out = "match"

\* C6 (as claimed): when every directory entry was enumerated and every
\* controller candidate rejected for a per-candidate reason, resolve fails
\* with the one error kind NoMatchingMediaDevice (the initial AVERROR(EINVAL)).
C6_ExhaustionReturnsEinval ==
  (ResolveDone /\ Enumerated /\ Len(hist) = Len(dir)
     /\ \A i \in 1..Len(hist) : hist[i].out \in PerCandidate \cup {"skip"})
  => result = -EINVAL

\* C6 (amended): when every directory entry was enumerated without a match,
\* resolve fails with a negative code: the error of the last "media"
\* candidate tried (the errno read when its open, info or topology failure
\* was returned, ENOMEM, or EINVAL for an empty or non-matching topology),
\* and EINVAL when no entry has the prefix.
C6_ExhaustionReturnsLastError ==
  (ResolveDone /\ Enumerated /\ \A i \in 1..Len(hist) : hist[i].out # "match")
  => /\ Len(hist) = Len(dir)
     /\ result < 0
     /\ result = LastError(hist)

C6_Witness ==
  /\ ResolveDone /\ Enumerated
  /\ Len(hist) = 3
  /\ hist[1].out = "nomatch"
  /\ hist[2].out = "openfail" /\ hist[2].errno # EINVAL
  /\ hist[3].out = "skip"
  /\ result = -hist[2].errno

\* C7 (as claimed): when probe enumerates every entry without an
\* acceptance it fails with the one error kind NoSuitableDevice (the
\* initial AVERROR(EINVAL)), also when the last candidate failed to open.
C7_ProbeExhaustionReturnsEinval ==
  (ProbeDone /\ Enumerated /\ \A i \in 1..Len(hist) : hist[i].out # "accept")
  => result = -EINVAL

\* C7 (amended): when probe enumerates every entry without an acceptance it
\* fails with a negative code: EINVAL when no entry has the prefix or the
\* last candidate tried was rejected by the predicate, and the open or
\* capability-query errno of the last candidate tried when that one failed.
C7_ProbeExhaustionReturnsLastError ==
  (ProbeDone /\ Enumerated /\ \A i \in 1..Len(hist) : hist[i].out # "accept")
  => /\ Len(hist) = Len(dir)
     /\ result < 0
     /\ result = LastError(hist)

C7_Witness ==
  /\ ProbeDone /\ Enumerated
  /\ Len(hist) = 3
  /\ hist[1].out = "reject"
  /\ hist[2].out = "queryfail" /\ hist[2].errno # EINVAL
  /\ hist[3].out = "skip"
  /\ result = -hist[2].errno

\* C8: in resolve a per-candidate rejection never ends the call: every
\* "media" entry up to a match is tried, without a match the whole listing
\* is enumerated, and a later candidate that matches is returned with its
\* own path and its descriptor open.
C8_ResolveContinuesAfterRejection ==
  (ResolveDone /\ Enumerated) =>
    /\ \A i \in 1..Len(hist) :
         /\ hist[i].name = dir[i]
         /\ HasPrefix(dir[i], MediaPrefix) => hist[i].out \notin {"skip", "trying", "opened"}
         /\ hist[i].out = "match" =>
              /\ result = 0
              /\ i = Len(hist)
              /\ media_device.devname = DevDir \o dir[i]
              /\ media_device.fd = hist[i].fd
              /\ media_device.fd \in fds
    /\ (\A i \in 1..Len(hist) : hist[i].out # "match") => Len(hist) = Len(dir)

C8_Witness ==
  /\ ResolveDone /\ result = 0
  /\ Len(hist) = 2
  /\ hist[1].out \in PerCandidate
  /\ hist[1].fd >= 0
  /\ hist[2].out = "match"
  /\ media_device.fd = hist[2].fd

\* C9: in probe a candidate whose open or capability query fails is
\* skipped: every "video" entry up to an acceptance is opened, without an
\* acceptance the whole listing is enumerated, and a later accepted
\* candidate is the result whatever happened to the earlier ones.
C9_ProbeContinuesAfterFailure ==
  (ProbeDone /\ Enumerated) =>
    /\ \A i \in 1..Len(hist) :
         /\ hist[i].name = dir[i]
         /\ HasPrefix(dir[i], VideoPrefix) => hist[i].out \notin {"skip", "trying", "opened"}
         /\ hist[i].out = "accept" =>
              /\ result = 0
              /\ i = Len(hist)
              /\ device.devname = DevDir \o dir[i]
              /\ device.fd \in fds
    /\ (\A i \in 1..Len(hist) : hist[i].out # "accept") => Len(hist) = Len(dir)

C9_Witness ==
  /\ ProbeDone /\ result = 0
  /\ Len(hist) = 3
  /\ hist[1].out = "openfail"
  /\ hist[2].out = "queryfail"
  /\ hist[3].out = "accept"

\* C10: a candidate whose size probe reports zero interfaces is rejected
\* without an allocation or a fill query, and is never the result.
C10_EmptyTopologyRejected ==
  op = "resolve" =>
    \A i \in 1..Len(hist) :
      hist[i].n = 0 =>
        /\ ~hist[i].alloc
        /\ ~hist[i].fill
        /\ hist[i].out = "empty"
        /\ (pc = "r_checked" /\ i = Len(hist)) => ret < 0
        /\ (pc = "done" /\ result = 0) => media_device.devname # DevDir \o hist[i].name

C10_Witness ==
  /\ ResolveDone /\ result = 0
  /\ Len(hist) = 2
  /\ hist[1].n = 0 /\ hist[1].out = "empty"
  /\ hist[2].out = "match"

\* positions in the log of the calls named `call`
LogIdx(call) == { k \in 1..Len(log) : log[k].call = call }

\* the fstat on the input video descriptor failed
FstatFailedCall == \E k \in LogIdx("fstat") : log[k].res < 0

\* C11: when the identity query (fstat) on the input video descriptor
\* fails, resolve returns a failure at once: fstat is the only call made,
\* the directory is not opened, no candidate is opened or queried, and the
\* output handle keeps the caller's value.
C11_IdentityFailureReturnsAtOnce ==
  (op = "resolve" /\ FstatFailedCall) =>
    /\ pc = "done"
    /\ result < 0
    /\ Len(log) = 1
    /\ dirp = -1
    /\ fds = StdFds \cup {video_device_fd}
    /\ opened = {}
    /\ hist = <<>>
    /\ media_device = CallerMedia

C11_Witness ==
  /\ ResolveDone /\ FstatFailedCall
  /\ Len(dir) >= 1
  /\ HasPrefix(dir[1], MediaPrefix)

\* the directory stream was opened
DirOpened == \E k \in LogIdx("opendir") : log[k].res >= 0

\* C12: in probe and in resolve a directory stream that was opened is
\* closed exactly once before the call returns, and not before the loop is
\* left: while the call runs the stream is open, at the return there is one
\* closedir, of that stream, and its descriptor is released.
C12_DirectoryClosedOnce ==
  DirOpened =>
    LET o == CHOOSE k \in LogIdx("opendir") : log[k].res >= 0
        d == log[o].res
    IN /\ Cardinality(LogIdx("opendir")) = 1
       /\ pc # "done" =>
            /\ LogIdx("closedir") = {}
            /\ dirp = d
            /\ d \in fds
       /\ pc = "done" =>
            /\ Cardinality(LogIdx("closedir")) = 1
            /\ \A k \in LogIdx("closedir") : log[k].arg = d /\ k = Len(log)
            /\ closedirs = 1
            /\ dirp = -1
            /\ d \notin fds

C12_Witness ==
  /\ ResolveDone /\ DirOpened /\ result < 0
  /\ Len(hist) = 3
  /\ hist[1].out = "openfail"
  /\ hist[2].out = "nomatch"
  /\ hist[3].out = "skip"

\* C14: when resolve succeeds, path, descriptor and info of the handle are
\* those of one candidate, the first in enumeration order whose fill answer
\* matched; its descriptor is open and no later directory entry was opened.
C14_ResolveReturnsFirstMatch ==
  (ResolveDone /\ result = 0) =>
    LET i == Len(hist) IN
    /\ i >= 1
    /\ hist[i].name = dir[i]
    /\ HasPrefix(dir[i], MediaPrefix)
    /\ HasExactRecord(filled, statbuf)
    /\ \A j \in 1..(i-1) : hist[j].out \in {"skip", "allocfail"} \cup PerCandidate
    /\ media_device.devname = DevDir \o dir[i]
    /\ media_device.fd = hist[i].fd
    /\ media_device.fd >= 0
    /\ media_device.fd \in fds
    /\ media_device.info = InfoOf(dir[i])
    /\ \A k \in LogIdx("open") : log[k].at <= i
    /\ \E k \in LogIdx("open") : log[k].at = i /\ log[k].res = media_device.fd

C14_Witness ==
  /\ ResolveDone /\ result = 0
  /\ Len(hist) = 1
  /\ Len(dir) = 3
  /\ HasPrefix(dir[2], MediaPrefix)

\* the open and the capability query of entry i both succeeded
OpenedAndQueried(i) ==
  /\ \E k \in LogIdx("open") : log[k].at = i /\ log[k].res >= 0
  /\ \E k \in LogIdx("querycap") : log[k].at = i /\ log[k].res = 0

\* C15: probe calls the predicate exactly once for each "video" entry whose
\* open and capability query both succeeded, in enumeration order, up to
\* and including the accepted one, with that candidate's descriptor open at
\* the call; never for an entry without the prefix, for a candidate whose
\* open or query failed, or after an acceptance.
C15_PredicateOncePerOpenedCandidate ==
  op = "probe" =>
    /\ pc = "p_check" =>
         /\ tmpdev.fd \in fds
         /\ tmpdev.fd = Last(hist).fd
         /\ tmpdev.devname = DevDir \o dir[pos]
    /\ \A k \in LogIdx("checkdev") :
         LET i == log[k].at IN
         /\ HasPrefix(dir[i], VideoPrefix)
         /\ OpenedAndQueried(i)
         /\ \E o \in LogIdx("open") : o < k /\ log[o].at = i /\ log[o].res = log[k].arg
         /\ \A k2 \in LogIdx("checkdev") :
              k2 < k => (log[k2].at < i /\ log[k2].res = 0)
    /\ \A i \in 1..Len(hist) :
         (OpenedAndQueried(i) /\ (i < Len(hist) \/ pc \in {"p_loop", "p_closedir", "done"}))
           => \E k \in LogIdx("checkdev") : log[k].at = i

C15_Witness ==
  /\ ProbeDone /\ result = 0
  /\ Cardinality(LogIdx("checkdev")) = 2
  /\ Len(hist) = 3
  /\ hist[1].out = "reject"
  /\ hist[2].out = "queryfail"
  /\ hist[3].out = "accept"

\* C16: the interface buffer allocated for a candidate is freed exactly
\* once before the topology check of that candidate returns, on the
\* fill-failure, the match and the no-match path; outside the check no
\* buffer is held.
C16_InterfacesFreedOnce ==
  op = "resolve" =>
    LET allocs == { k \in LogIdx("av_mallocz") : log[k].res = 1 }
        frees  == LogIdx("av_freep")
    IN /\ IF pc = "r_fill"
            THEN Cardinality(allocs) = Cardinality(frees) + 1 /\ interfaces # NULL
            ELSE Cardinality(allocs) = Cardinality(frees) /\ interfaces = NULL
       /\ \A f \in frees :
            /\ \E a \in allocs : a < f /\ log[a].at = log[f].at
            /\ \A g \in frees : g # f => log[g].at # log[f].at

C16_Witness ==
  /\ ResolveDone
  /\ Len(hist) = 3
  /\ hist[1].out = "fillfail"
  /\ hist[2].out = "nomatch"
  /\ hist[3].out = "skip"
  /\ Cardinality(LogIdx("av_freep")) = 2

C18_ClosesOwnOpenDescriptors ==
  \A k \in LogIdx("close") :
    /\ log[k].arg >= 0
    /\ log[k].res = 0
    /\ log[k].arg # video_device_fd
    /\ \E o \in LogIdx("open") : o < k /\ log[o].res = log[k].arg

\* C19: a call that returns an error leaves the caller's output handle as
\* it was; the handle is written only by a successful return, with the
\* accepted candidate; the input video descriptor of resolve stays open.
C19_OutputWrittenOnlyOnSuccess ==
  /\ pc # "done" => (device = CallerVideo /\ media_device = CallerMedia)
  /\ (pc = "done" /\ result # 0) => (device = CallerVideo /\ media_device = CallerMedia)
  /\ (pc = "done" /\ \A i \in 1..Len(hist) : hist[i].out \notin {"accept", "match"})
       => result < 0
  /\ (ProbeDone /\ result = 0) => (device = tmpdev /\ media_device = CallerMedia)
  /\ (ResolveDone /\ result = 0) =>
       /\ device = CallerVideo
       /\ media_device = [devname |-> devname, fd |-> fd, info |-> info]
  /\ op = "resolve" =>
       /\ video_device_fd \in fds
       /\ \A k \in 1..Len(log) :
            log[k].call \in {"close", "closedir", "device_info"}
              => log[k].arg # video_device_fd

C19_Witness ==
  /\ ProbeDone /\ result < 0
  /\ Len(hist) = 2
  /\ hist[1].out = "reject"
  /\ hist[2].out = "queryfail"
  /\ tmpdev # CallerVideo

====
